---- MODULE Spec2Model ----
(***************************************************************************)
(* Model of src/sql.py: the SQLite widget, a wrapper around one           *)
(* sqlite3.Connection on a per-user database file.                        *)
(*                                                                         *)
(* The file at user_db_path and the sqlite3 connection are the state.     *)
(* Every method of the class is an operator from a machine record (file,  *)
(* connection, the calls made on the sqlite3 objects, the exception that  *)
(* leaves the method) to the machine record after the method, written in  *)
(* the order of the method's statements; the actions apply the methods to *)
(* inputs drawn from small sets.  The behaviour of the sqlite3 module     *)
(* itself (implicit BEGIN before DML, executescript committing first and  *)
(* running in autocommit mode, errors on a closed connection) is modelled *)
(* at the call sites of the source.                                       *)
(***************************************************************************)
EXTENDS Integers, Sequences, FiniteSets, TLC

\* ------------------------------------------------------------------ bounds
MaxKey == 2        \* primary keys "1".."MaxKey"
MaxScript == 2     \* statements in a script passed to execute_script
MaxClose == 2      \* close() calls on one instance

\* ------------------------------------------------------------- SQL values
Keys == {ToString(i) : i \in 1..MaxKey}
KeyNum(k) == CHOOSE i \in 1..MaxKey : ToString(i) = k
Names == {"a", "b"}    \* the TEXT values
Huge == "2**70"    \* an int sqlite3 cannot bind: OverflowError
Tables == {"t"}
\* a row is [t |-> table, id |-> key, name |-> text]: id INTEGER PRIMARY KEY, name TEXT

\* ------------------------------------------------------- database content
NoFile == [exists |-> FALSE, tables |-> {}, rows |-> {}]
EmptyFile == [exists |-> TRUE, tables |-> {}, rows |-> {}]

\* ----------------------------------------------------------- exceptions
NoError == "none"
DatabaseErrors == {"OperationalError", "IntegrityError", "ProgrammingError"}
\* OverflowError and FileNotFoundError are raised too and are not DatabaseErrors
IsDatabaseError(e) == e \in DatabaseErrors

\* ------------------------------------------------------------ statements
CreateStmt(table, columns) ==
    [k |-> "create", t |-> table, columns |-> columns, values |-> <<>>,
     ine |-> TRUE]
PlainCreateStmt(table) ==
    [k |-> "create", t |-> table, columns |-> <<"id", "name">>, values |-> <<>>,
     ine |-> FALSE]
InsertStmt(table, columns, values) ==
    [k |-> "insert", t |-> table, columns |-> columns, values |-> values,
     ine |-> FALSE]
DeleteStmt(table, column, value) ==
    [k |-> "delete", t |-> table, columns |-> <<column>>, values |-> <<value>>,
     ine |-> FALSE]
UpdateStmt(table, column, new_value, condition_column, condition_value) ==
    [k |-> "update", t |-> table, columns |-> <<column, condition_column>>,
     values |-> <<new_value, condition_value>>, ine |-> FALSE]
SelectStmt(table, columns, params) ==
    [k |-> "select", t |-> table, columns |-> columns, values |-> params,
     ine |-> FALSE]
BadStmt ==
    [k |-> "bad", t |-> "t", columns |-> <<>>, values |-> <<>>, ine |-> FALSE]

IsDML(stmt) == stmt.k \in {"insert", "update", "delete"}


\* ------------------------------------------- what sqlite does to a content
TableRows(c, table) == {r \in c.rows : r.t = table}
ColumnOf(r, column) == IF column = "id" THEN r.id ELSE r.name
Matches(r, table, column, value) == r.t = table /\ ColumnOf(r, column) = value

\* the rowid sqlite assigns when the INTEGER PRIMARY KEY column is omitted
NextRowid(c, table) ==
    IF TableRows(c, table) = {} THEN 1
    ELSE 1 + (CHOOSE n \in 1..MaxKey :
                /\ \E r \in TableRows(c, table) : KeyNum(r.id) = n
                /\ \A r \in TableRows(c, table) : KeyNum(r.id) <= n)

InsertedRow(c, stmt) ==
    IF stmt.columns = <<"name">>
    THEN [t |-> stmt.t, id |-> ToString(NextRowid(c, stmt.t)), name |-> stmt.values[1]]
    ELSE [t |-> stmt.t, id |-> stmt.values[1], name |-> stmt.values[2]]

UpdatedRow(r, stmt) ==
    IF ~Matches(r, stmt.t, stmt.columns[2], stmt.values[2]) THEN r
    ELSE IF stmt.columns[1] = "id" THEN [r EXCEPT !.id = stmt.values[1]]
    ELSE [r EXCEPT !.name = stmt.values[1]]

\* sqlite3_prepare: syntax errors, unknown tables, column/value count
PrepareError(c, stmt) ==
    CASE stmt.k = "bad" -> "OperationalError"
      [] stmt.k = "create" ->
            IF stmt.columns = <<>> THEN "OperationalError"
            ELSE IF ~stmt.ine /\ stmt.t \in c.tables THEN "OperationalError"
            ELSE NoError
      [] stmt.k = "insert" ->
            IF stmt.t \notin c.tables THEN "OperationalError"
            ELSE IF Len(stmt.columns) # Len(stmt.values) THEN "OperationalError"
            ELSE NoError
      [] OTHER -> IF stmt.t \notin c.tables THEN "OperationalError" ELSE NoError

\* binding the parameters: an int beyond 64 bits
BindError(stmt) ==
    IF \E i \in 1..Len(stmt.values) : stmt.values[i] = Huge
    THEN "OverflowError" ELSE NoError

\* sqlite3_step: the PRIMARY KEY constraint; the statement then has no effect
StepError(c, stmt) ==
    CASE stmt.k = "insert" ->
            IF \E r \in TableRows(c, stmt.t) : r.id = InsertedRow(c, stmt).id
            THEN "IntegrityError" ELSE NoError
      [] stmt.k = "update" ->
            IF \E r, q \in TableRows(c, stmt.t) :
                  r # q /\ UpdatedRow(r, stmt).id = UpdatedRow(q, stmt).id
            THEN "IntegrityError" ELSE NoError
      [] OTHER -> NoError

Apply(c, stmt) ==
    CASE stmt.k = "create" -> [c EXCEPT !.tables = @ \cup {stmt.t}]
      [] stmt.k = "insert" -> [c EXCEPT !.rows = @ \cup {InsertedRow(c, stmt)}]
      [] stmt.k = "delete" ->
            [c EXCEPT !.rows = {r \in @ :
                ~Matches(r, stmt.t, stmt.columns[1], stmt.values[1])}]
      [] stmt.k = "update" ->
            [c EXCEPT !.rows = {UpdatedRow(r, stmt) : r \in @}]
      [] OTHER -> c

\* the rows a SELECT yields, in rowid order, each in the order of its columns
Selected(c, stmt) ==
    {r \in TableRows(c, stmt.t) : stmt.values = <<>> \/ r.id = stmt.values[1]}
\* SELECT * in place of the columns asked for
Project_star(r, columns) == <<r.id, r.name>>
Project(r, columns) == [j \in 1..Len(columns) |-> ColumnOf(r, columns[j])]
Rank(S, r) == 1 + Cardinality({q \in S : KeyNum(q.id) < KeyNum(r.id)})
ResultRows(c, stmt) ==
    LET S == Selected(c, stmt) IN
    [i \in 1..Cardinality(S) |->
        Project(CHOOSE r \in S : Rank(S, r) = i, stmt.columns)]


\* ---------------------------------------------------------------- state
VARIABLES
    file,          \* the database file at user_db_path
    connection,    \* self.connection: open, its view, in_transaction, cursors
    state,         \* "Uninitialized", "Open" or "Closed": the instance
    op,            \* the method called last
    args,          \* its arguments
    calls,         \* the calls it made on the sqlite3 objects, in order
    err,           \* the exception that left it, or NoError
    raised_by,     \* the call that raised it
    result,        \* what it returned
    opened,        \* sqlite3.connect calls of this instance
    closes,        \* connection.close calls of this instance
    script_done,   \* history: initialize_db has completed on this file
    staged_before  \* history: the rows staged, not committed, when op was called

vars == <<file, connection, state, op, args, calls, err, raised_by, result,
          opened, closes, script_done, staged_before>>

NoResult == [kind |-> "none", rows |-> <<>>]
NoArgs == [table |-> "", columns |-> <<>>, values |-> <<>>, auto_commit |-> TRUE]
NoConnection ==
    [open |-> FALSE, view |-> NoFile, in_transaction |-> FALSE, cursors |-> 0]

\* the machine a method starts on: the state, with the record of the call reset
Machine ==
    [file |-> file, open |-> connection.open, view |-> connection.view,
     in_transaction |-> connection.in_transaction, cursors |-> connection.cursors,
     calls |-> <<>>, err |-> NoError, raised_by |-> "", result |-> NoResult,
     opened |-> opened, closes |-> closes, rollback_fails |-> FALSE]

\* the machine when the engine cannot roll back (an I/O error under ROLLBACK)
Faulty == [Machine EXCEPT !.rollback_fails = TRUE]

Call(m, c) == [m EXCEPT !.calls = Append(@, c)]
\* a call that raises is recorded with a "!": it did not do what it is for
Fail(m, c, e) == [m EXCEPT !.calls = Append(@, c \o "!"), !.err = e, !.raised_by = c]

\* --------------------------------------------- calls on the sqlite3 objects
connect(m) ==
    LET f == IF m.file.exists THEN m.file ELSE EmptyFile IN
    [Call(m, "connect") EXCEPT !.file = f, !.open = TRUE, !.view = f,
        !.in_transaction = FALSE, !.cursors = 0, !.opened = @ + 1]

cursor(m) ==
    IF ~m.open THEN Fail(m, "cursor", "ProgrammingError")
    ELSE [Call(m, "cursor") EXCEPT !.cursors = @ + 1]

cursor_close(m) == [Call(m, "cursor.close") EXCEPT !.cursors = @ - 1]

commit(m) ==
    IF ~m.open THEN Fail(m, "commit", "ProgrammingError")
    ELSE [Call(m, "commit") EXCEPT !.file = m.view, !.in_transaction = FALSE]

rollback(m) ==
    IF ~m.open THEN Fail(m, "rollback", "ProgrammingError")
    ELSE IF m.rollback_fails THEN Fail(m, "rollback", "OperationalError")
    ELSE [Call(m, "rollback") EXCEPT !.view = m.file, !.in_transaction = FALSE]

connection_close(m) ==
    [Call(m, "close") EXCEPT !.open = FALSE, !.view = m.file,
        !.in_transaction = FALSE, !.closes = @ + 1]

\* cursor.execute: prepare, implicit BEGIN before DML, bind, step
execute(m, stmt) ==
    LET begun == IF IsDML(stmt) THEN [m EXCEPT !.in_transaction = TRUE] ELSE m
        v == Apply(m.view, stmt)
    IN  IF PrepareError(m.view, stmt) # NoError
        THEN Fail(m, "execute", PrepareError(m.view, stmt))
        ELSE IF BindError(stmt) # NoError
        THEN Fail(begun, "execute", BindError(stmt))
        ELSE IF StepError(m.view, stmt) # NoError
        THEN Fail(begun, "execute", StepError(m.view, stmt))
        ELSE IF begun.in_transaction
        THEN [Call(begun, "execute") EXCEPT !.view = v]
        ELSE [Call(begun, "execute") EXCEPT !.view = v, !.file = v]

\* the statements of a script, each in autocommit mode, up to the first error
RECURSIVE RunScript(_, _)
RunScript(c, script) ==
    IF script = <<>> THEN [content |-> c, err |-> NoError]
    ELSE LET stmt == Head(script) IN
         IF PrepareError(c, stmt) # NoError
         THEN [content |-> c, err |-> PrepareError(c, stmt)]
         ELSE IF StepError(c, stmt) # NoError
         THEN [content |-> c, err |-> StepError(c, stmt)]
         ELSE RunScript(Apply(c, stmt), Tail(script))

\* cursor.executescript: COMMIT a pending transaction, then run the script
executescript(m, script) ==
    LET r == RunScript(m.view, script)
        done == [m EXCEPT !.file = r.content, !.view = r.content,
                          !.in_transaction = FALSE]
    IN  IF r.err # NoError THEN Fail(done, "executescript", r.err)
        ELSE Call(done, "executescript")

fetch_all(m, stmt) ==
    [Call(m, "fetchall") EXCEPT
        !.result = [kind |-> "rows", rows |-> ResultRows(m.view, stmt)]]

fetch_one(m, stmt) ==
    LET rows == ResultRows(m.view, stmt) IN
    [Call(m, "fetchone") EXCEPT
        !.result = IF rows = <<>> THEN [kind |-> "None", rows |-> <<>>]
                   ELSE [kind |-> "row", rows |-> <<rows[1]>>]]


\* ---------------------------------------------- the body of a with block
DoExecute(stmt) == [call |-> "execute", stmt |-> stmt, script |-> <<>>]
DoExecutescript(script) == [call |-> "executescript", stmt |-> BadStmt, script |-> script]
DoCommit == [call |-> "commit", stmt |-> BadStmt, script |-> <<>>]
DoFetchall(stmt) == [call |-> "fetchall", stmt |-> stmt, script |-> <<>>]
DoFetchone(stmt) == [call |-> "fetchone", stmt |-> stmt, script |-> <<>>]

Do(m, step) ==
    CASE step.call = "execute" -> execute(m, step.stmt)
      [] step.call = "executescript" -> executescript(m, step.script)
      [] step.call = "commit" -> commit(m)
      [] step.call = "fetchall" -> fetch_all(m, step.stmt)
      [] OTHER -> fetch_one(m, step.stmt)

\* the statements of a block in order; an exception leaves the block
RECURSIVE Block(_, _)
Block(m, body) ==
    IF body = <<>> \/ m.err # NoError THEN m
    ELSE Block(Do(m, Head(body)), Tail(body))

\* -------------------------------------------------- the methods of SQLite
\* _cursor without its finally: an exception in the body skips cursor.close()
_cursor_no_finally(m, body) ==
    LET c == cursor(m)
        b == Block(c, body)
    IN  IF c.err # NoError THEN c
        ELSE IF b.err # NoError THEN b ELSE cursor_close(b)

\* _cursor rolling back, where the body raised a DatabaseError, before it
\* closes the cursor
_cursor_rolls_back(m, body) ==
    LET c == cursor(m)
        b == Block(c, body)
    IN  IF c.err # NoError THEN c
        ELSE IF ~IsDatabaseError(b.err) THEN cursor_close(b)
        ELSE cursor_close([rollback([b EXCEPT !.err = NoError]) EXCEPT
                              !.err = b.err, !.raised_by = b.raised_by])

\* @contextmanager _cursor: cursor(), the body, and finally cursor.close()
_cursor(m, body) ==
    LET c == cursor(m) IN
    IF c.err # NoError THEN c ELSE cursor_close(Block(c, body))

\* the handler closing the connection where it should roll back
except_DatabaseError_closes(m) ==
    IF ~IsDatabaseError(m.err) THEN m
    ELSE [connection_close([m EXCEPT !.err = NoError]) EXCEPT
             !.err = m.err, !.raised_by = m.raised_by]

\* except sqlite3.DatabaseError as e: self.connection.rollback(); raise e
except_DatabaseError(m) ==
    IF ~IsDatabaseError(m.err) THEN m
    ELSE LET rb == rollback([m EXCEPT !.err = NoError]) IN
         IF rb.err # NoError THEN rb
         ELSE [rb EXCEPT !.err = m.err, !.raised_by = m.raised_by]

\* try: with self._cursor() as cursor: <body>; self.connection.commit()
with_then_commit(m, body) ==
    except_DatabaseError(Block(_cursor(m, body), <<DoCommit>>))

\* execute_script without the commit after the with block
execute_script_no_commit(m, script) ==
    except_DatabaseError(_cursor(m, <<DoExecutescript(script)>>))

execute_script(m, script) ==
    with_then_commit(m, <<DoExecutescript(script)>>)

create_table(m, table, columns) ==
    with_then_commit(m, <<DoExecute(CreateStmt(table, columns))>>)

\* insert_one committing whatever auto_commit says
insert_one_always_commits(m, table, columns, values, auto_commit) ==
    except_DatabaseError(
        _cursor(m, <<DoExecute(InsertStmt(table, columns, values)), DoCommit>>))

insert_one(m, table, columns, values, auto_commit) ==
    except_DatabaseError(
        _cursor(m, <<DoExecute(InsertStmt(table, columns, values))>>
                   \o (IF auto_commit THEN <<DoCommit>> ELSE <<>>)))

delete_one(m, table_name, column_name, value) ==
    with_then_commit(m, <<DoExecute(DeleteStmt(table_name, column_name, value))>>)

update_column(m, table_name, column_name, new_value, condition_column, condition_value) ==
    with_then_commit(m,
        <<DoExecute(UpdateStmt(table_name, column_name, new_value,
                               condition_column, condition_value))>>)

\* fetchall with one cursor to execute and another to fetch
fetchall_two_cursors(m, query) ==
    LET e == _cursor(m, <<DoExecute(query)>>) IN
    IF e.err # NoError THEN e ELSE _cursor(e, <<DoFetchall(query)>>)

fetchall(m, query) == _cursor(m, <<DoExecute(query), DoFetchall(query)>>)

\* fetchone committing after the fetch
fetchone_commits(m, query) ==
    _cursor(m, <<DoExecute(query), DoFetchone(query), DoCommit>>)

fetchone(m, query) == _cursor(m, <<DoExecute(query), DoFetchone(query)>>)

\* close committing before it closes the connection
close_commits(m) ==
    IF m.open THEN connection_close(commit(m)) ELSE connection_close(m)

close(m) == connection_close(m)

\* initialize_db with the errors of the script swallowed
initialize_db_swallows(m, template) ==
    IF ~template.readable
    THEN Fail(m, "open", "FileNotFoundError")
    ELSE [execute_script(Call(m, "open"), template.script) EXCEPT !.err = NoError]

\* open(sql_file_path, 'r'), f.read(), self.execute_script(script)
initialize_db(m, template) ==
    IF ~template.readable
    THEN Fail(m, "open", "FileNotFoundError")
    ELSE execute_script(Call(m, "open"), template.script)

\* __init__ without the exists() test
init_always_initializes(m, template) ==
    initialize_db(connect([m EXCEPT !.opened = 0, !.closes = 0]), template)

\* __init__: connect, and initialize_db only if the file did not exist
init(m, template) ==
    LET fresh == [m EXCEPT !.opened = 0, !.closes = 0] IN
    IF ~m.file.exists
    THEN initialize_db(connect(fresh), template)
    ELSE connect(fresh)


\* ---------------------------------------------------------------- inputs
Templates ==
    { [readable |-> FALSE, script |-> <<>>],
      [readable |-> TRUE, script |-> <<PlainCreateStmt("t")>>],
      [readable |-> TRUE, script |-> <<PlainCreateStmt("t"), BadStmt>>] }

ScriptStmts ==
    { InsertStmt("t", <<"id", "name">>, <<"1", "a">>), BadStmt }
Scripts == UNION {[1..n -> ScriptStmts] : n \in 1..MaxScript}

ColumnLists == {<<"id", "name">>, <<"name">>}
ValueLists ==
    {<<k, n>> : k \in Keys \cup {Huge}, n \in Names} \cup {<<n>> : n \in Names}
ColumnDicts == {<<"id", "name">>, <<>>}
Conditions ==
    {<<"id", k>> : k \in Keys \cup {Huge}} \cup {<<"name", n>> : n \in Names}
Assignments == {<<"id", k>> : k \in Keys} \cup {<<"name", n>> : n \in Names}
Queries ==
    {SelectStmt(t, c, p) : t \in Tables, c \in ColumnLists,
                           p \in {<<>>} \cup {<<k>> : k \in Keys}}

\* ------------------------------------------------------------------ Init
Init ==
    /\ file = NoFile
    /\ connection = NoConnection
    /\ state = "Uninitialized"
    /\ op = "none"
    /\ args = NoArgs
    /\ calls = <<>>
    /\ err = NoError
    /\ raised_by = ""
    /\ result = NoResult
    /\ opened = 0
    /\ closes = 0
    /\ script_done = FALSE
    /\ staged_before = {}

\* the state after a method has taken the machine to r
Returns(name, a, r) ==
    /\ file' = r.file
    /\ connection' = [open |-> r.open, view |-> r.view,
                      in_transaction |-> r.in_transaction, cursors |-> r.cursors]
    /\ op' = name
    /\ args' = a
    /\ calls' = r.calls
    /\ err' = r.err
    /\ raised_by' = r.raised_by
    /\ result' = r.result
    /\ opened' = r.opened
    /\ closes' = r.closes
    /\ staged_before' = connection.view.rows \ file.rows

\* the outcomes of a method: r, and where r rolled back also f, the outcome
\* of the same call on the machine that cannot roll back
Outcomes(r, f) == IF \E i \in 1..Len(r.calls) : r.calls[i] = "rollback" THEN {r, f} ELSE {r}

\* --------------------------------------------------------------- actions
\* SQLite(app_name, sql_script): a failed __init__ leaves no instance, and the
\* connection it opened is dropped with whatever it had not committed
Construct ==
    /\ state # "Open"
    /\ \E template \in Templates :
       \E r \in Outcomes(init(Machine, template), init(Faulty, template)) :
         IF r.err = NoError
         THEN /\ Returns("__init__", NoArgs, r)
              /\ state' = "Open"
              /\ script_done' = (script_done \/ ~file.exists)
         ELSE /\ Returns("__init__", NoArgs,
                         [r EXCEPT !.open = FALSE, !.view = r.file,
                                   !.in_transaction = FALSE])
              /\ state' = "Uninitialized"
              /\ script_done' = script_done

Live == state \in {"Open", "Closed"}

ExecuteScript ==
    /\ Live
    /\ \E script \in Scripts :
         \E r \in Outcomes(execute_script(Machine, script),
                            execute_script(Faulty, script)) :
            Returns("execute_script", NoArgs, r)
    /\ UNCHANGED <<state, script_done>>

CreateTable ==
    /\ Live
    /\ \E table \in Tables, columns \in ColumnDicts :
         \E r \in Outcomes(create_table(Machine, table, columns),
                            create_table(Faulty, table, columns)) :
            Returns("create_table",
                    [NoArgs EXCEPT !.table = table, !.columns = columns], r)
    /\ UNCHANGED <<state, script_done>>

InsertOne ==
    /\ Live
    /\ \E table \in Tables, columns \in ColumnLists, values \in ValueLists,
          auto_commit \in BOOLEAN :
         /\ (columns = <<"name">>) => NextRowid(connection.view, table) <= MaxKey
         /\ \E r \in Outcomes(insert_one(Machine, table, columns, values, auto_commit),
                               insert_one(Faulty, table, columns, values, auto_commit)) :
               Returns("insert_one",
                       [table |-> table, columns |-> columns, values |-> values,
                        auto_commit |-> auto_commit], r)
    /\ UNCHANGED <<state, script_done>>

DeleteOne ==
    /\ Live
    /\ \E table \in Tables, cond \in Conditions :
         \E r \in Outcomes(delete_one(Machine, table, cond[1], cond[2]),
                            delete_one(Faulty, table, cond[1], cond[2])) :
            Returns("delete_one",
                    [NoArgs EXCEPT !.table = table, !.columns = <<cond[1]>>,
                                   !.values = <<cond[2]>>], r)
    /\ UNCHANGED <<state, script_done>>

UpdateColumn ==
    /\ Live
    /\ \E table \in Tables, set \in Assignments, cond \in Conditions :
         \E r \in Outcomes(update_column(Machine, table, set[1], set[2], cond[1], cond[2]),
                            update_column(Faulty, table, set[1], set[2], cond[1], cond[2])) :
            Returns("update_column",
                    [NoArgs EXCEPT !.table = table, !.columns = <<set[1], cond[1]>>,
                                   !.values = <<set[2], cond[2]>>], r)
    /\ UNCHANGED <<state, script_done>>

FetchAll ==
    /\ Live
    /\ \E query \in Queries :
         Returns("fetchall",
                 [NoArgs EXCEPT !.table = query.t, !.columns = query.columns,
                                !.values = query.values],
                 fetchall(Machine, query))
    /\ UNCHANGED <<state, script_done>>

FetchOne ==
    /\ Live
    /\ \E query \in Queries :
         Returns("fetchone",
                 [NoArgs EXCEPT !.table = query.t, !.columns = query.columns,
                                !.values = query.values],
                 fetchone(Machine, query))
    /\ UNCHANGED <<state, script_done>>

Close ==
    /\ Live
    /\ closes < MaxClose
    /\ Returns("close", NoArgs, close(Machine))
    /\ state' = "Closed"
    /\ UNCHANGED script_done

Next ==
    \/ Construct
    \/ ExecuteScript
    \/ CreateTable
    \/ InsertOne
    \/ DeleteOne
    \/ UpdateColumn
    \/ FetchAll
    \/ FetchOne
    \/ Close

Spec == Init /\ [][Next]_vars


\* =============================================================== properties
Made(cs, c) == \E i \in 1..Len(cs) : cs[i] = c
Count(cs, c) == Cardinality({i \in 1..Len(cs) : cs[i] = c})

MutatingOps ==
    {"create_table", "insert_one", "delete_one", "update_column", "execute_script"}
DataOps == MutatingOps \cup {"fetchall", "fetchone"}

\* C1: a construction that finds the database file present does not run the
\* initialisation script (neither opens the template nor calls executescript)
\* and leaves the file as it was; a construction runs the script only when
\* it found the file absent.
C1_ProvisioningIdempotent ==
    [][ op' = "__init__" =>
          /\ file.exists =>
                /\ file' = file
                /\ ~Made(calls', "open")
                /\ ~Made(calls', "executescript")
          /\ Made(calls', "executescript") => ~file.exists ]_vars

\* C1 witness: a construction over a file that already holds rows connected
\* and did nothing else.
C1_Witness ==
    /\ op = "__init__"
    /\ state = "Open"
    /\ calls = <<"connect">>
    /\ file.rows # {}

\* C2: after a failed first-run provisioning no instance is Open over a file
\* whose initialisation script never completed.
C2_NoOpenWithoutScript == (state = "Open") => script_done

\* C3: a mutating operation that fails adds nothing to what later fetches see
\* nor to the file: no table and no row that was not there before appears.
C3_FailedStatementNoEffect ==
    [][ (state = "Open" /\ op' \in MutatingOps /\ err' # NoError) =>
          /\ connection'.view.rows \cup file'.rows
                \subseteq connection.view.rows \cup file.rows
          /\ connection'.view.tables \cup file'.tables
                \subseteq connection.view.tables \cup file.tables ]_vars

\* C4: whenever a public operation on an open instance fails, whatever the
\* error, the connection was rolled back before the error left the method.
C4_RollbackOnEveryError ==
    [][ (state = "Open" /\ op' \in DataOps /\ err' # NoError) =>
          Made(calls', "rollback") ]_vars

\* C5: at every operation boundary no cursor is open, and the operation
\* released as many cursors as it acquired, also when it failed.
C5_CursorsReleased ==
    /\ connection.cursors = 0
    /\ Count(calls, "cursor.close") = Count(calls, "cursor")

\* C5 witness: an operation that acquired a cursor and failed in execute.
C5_Witness ==
    /\ op \in DataOps
    /\ err # NoError
    /\ Made(calls, "execute!")
    /\ Count(calls, "cursor") = 1
    /\ Count(calls, "cursor.close") = 1


\* C6: every data operation called after close() fails with ExecutorClosed and
\* makes no call on the connection.
C6_ClosedExecutorRejects ==
    (state = "Closed" /\ op \in DataOps) =>
        (err = "ExecutorClosed" /\ calls = <<>>)

\* what fetchall of every column of every row of every table gives on machine
\* m: the rows or the error; every other query selects from these rows
Visible(m) ==
    [t \in Tables |->
        LET r == fetchall(m, SelectStmt(t, <<"id", "name">>, <<>>)) IN
        [err |-> r.err, result |-> r.result]]

\* C7: a successful insert_one(auto_commit=False) executes the INSERT (the row
\* is visible on the connection, a transaction is pending) and leaves the file
\* as it was; the rows of the file change only in an operation that commits;
\* a successful insert_one(auto_commit=True) persists, with its own row, every
\* row staged before it.
C7_StagedInserts ==
    [][ /\ (state = "Open" /\ op' = "insert_one" /\ err' = NoError
              /\ ~args'.auto_commit) =>
                /\ file' = file
                /\ connection'.in_transaction
                /\ connection'.view.rows # connection.view.rows
                /\ connection.view.rows \subseteq connection'.view.rows
        /\ (state = "Open" /\ file'.rows # file.rows) =>
                (Made(calls', "commit") \/ Made(calls', "executescript")
                    \/ Made(calls', "executescript!"))
        /\ (state = "Open" /\ op' = "insert_one" /\ err' = NoError
              /\ args'.auto_commit) =>
                /\ connection.view.rows \subseteq file'.rows
                /\ file'.rows # connection.view.rows
                /\ file' = connection'.view
                /\ ~connection'.in_transaction ]_vars

\* C7 witness: an insert_one(auto_commit=True) has just persisted a row that
\* was staged before it together with its own.
C7_Witness ==
    /\ state = "Open"
    /\ op = "insert_one"
    /\ args.auto_commit
    /\ err = NoError
    /\ staged_before # {}
    /\ staged_before \subseteq file.rows
    /\ Cardinality(file.rows) > Cardinality(staged_before)

\* C8: insert_one with len(columns) # len(values) fails with
\* ParameterCountMismatch before any call on the connection.
C8_MismatchRejectedBeforeEngine ==
    (state = "Open" /\ op = "insert_one"
        /\ Len(args.columns) # Len(args.values)) =>
            (err = "ParameterCountMismatch" /\ calls = <<>>)

\* C9 as claimed, for the operations that issue one statement: after such an
\* operation fails on an open instance the connection is open, no cursor is
\* open, and every fetch returns what it would have returned had the failed
\* operation not been issued; the file is as it was.
SameAsNeverIssued ==
    /\ file' = file
    /\ Visible(Machine') = Visible(Machine)

C9_FailureLeavesNoTrace ==
    [][ (state = "Open" /\ op' \in DataOps \ {"execute_script"} /\ err' # NoError) =>
          /\ connection'.open
          /\ connection'.cursors = 0
          /\ SameAsNeverIssued ]_vars

\* C9 amended: the connection stays open with no cursor open after any failed
\* data operation; fetches and the file are as if the operation had not been
\* issued when no staged insert was pending and the operation was not
\* execute_script.
C9_FailureLeavesUsable ==
    [][ (state = "Open" /\ op' \in DataOps /\ err' # NoError) =>
          /\ connection'.open
          /\ connection'.cursors = 0
          /\ (op' # "execute_script" /\ connection.view = file)
                => SameAsNeverIssued ]_vars

\* C9 witness: a mutating operation failed with a database error on an open
\* instance holding rows, nothing staged, and was rolled back.
C9_Witness ==
    /\ state = "Open"
    /\ op \in MutatingOps \ {"execute_script"}
    /\ err \in DatabaseErrors
    /\ Made(calls, "rollback")
    /\ staged_before = {}
    /\ file.rows # {}
    /\ connection.open

\* C10: an instance opens exactly one connection, closes it at most once, and
\* makes no call on it after close().
C10_OneConnectionClosedOnce ==
    (state # "Uninitialized") =>
        /\ opened = 1
        /\ closes <= 1
        /\ (state = "Closed" /\ op # "close") => calls = <<>>

\* ---------------------------------------------------------------------- C11
\* C11: when the statement of an operation fails and the rollback attempted on
\* the error path fails too, the error the operation raises is the one of the
\* statement, not the one of the rollback.
StatementFailed == Made(calls, "execute!") \/ Made(calls, "executescript!")

C11_OriginalErrorSurfaces ==
    (StatementFailed /\ Made(calls, "rollback!")) =>
        raised_by \in {"execute", "executescript"}

\* ---------------------------------------------------------------------- C12
\* the primary key of the row an INSERT of these columns and values makes on
\* content c: the id given, or the rowid sqlite assigns
KeyOfInsert(c, a) ==
    IF a.columns = <<"name">> THEN ToString(NextRowid(c, a.table))
    ELSE a.values[1]

\* C12: right after a first construction whose script created t, fetchall over
\* t returns the empty sequence; after a successful insert_one(t, cols, vals),
\* fetchone and fetchall selecting cols of the row of that primary key return
\* one row, equal to vals in the order of cols.
C12_RoundTrip ==
    [][ /\ (op' = "__init__" /\ err' = NoError /\ Made(calls', "executescript")) =>
              \A cols \in ColumnLists :
                 LET r == fetchall(Machine', SelectStmt("t", cols, <<>>)) IN
                 r.err = NoError /\ r.result = [kind |-> "rows", rows |-> <<>>]
        /\ (state = "Open" /\ op' = "insert_one" /\ err' = NoError) =>
              LET pk == KeyOfInsert(connection.view, args')
                  query == SelectStmt(args'.table, args'.columns, <<pk>>)
                  one == fetchone(Machine', query)
                  all == fetchall(Machine', query)
              IN  /\ one.err = NoError /\ all.err = NoError
                  /\ one.result = [kind |-> "row", rows |-> <<args'.values>>]
                  /\ all.result = [kind |-> "rows", rows |-> <<args'.values>>] ]_vars

\* C12 witness: an insert_one that left the key to sqlite has made the second
\* row of t, and fetchone of its columns by that key returns its values.
C12_Witness ==
    /\ state = "Open"
    /\ op = "insert_one"
    /\ err = NoError
    /\ args.columns = <<"name">>
    /\ Cardinality(TableRows(connection.view, "t")) = 2
    /\ \E k \in Keys :
          fetchone(Machine, SelectStmt("t", args.columns, <<k>>)).result
              = [kind |-> "row", rows |-> <<args.values>>]

\* ---------------------------------------------------------------------- C13
\* C13: the instance only moves forward. A public operation is served only on
\* an instance whose construction has returned; an instance becomes Open only
\* by a construction that raised nothing, with the connection open and, on the
\* first run, with the script executed and committed; once closed, no
\* operation on the instance, a second close() included, opens it again or
\* touches the file.
C13_LifecycleForward ==
    [][ /\ (op' \in DataOps \cup {"close"}) =>
              (state \in {"Open", "Closed"} /\ opened = 1 /\ opened' = 1)
        /\ (state' = "Open" /\ state # "Open") =>
              /\ op' = "__init__" /\ err' = NoError /\ connection'.open
              /\ ~file.exists =>
                    (calls' = <<"connect", "open", "cursor", "executescript",
                                "cursor.close", "commit">>)
        /\ (state = "Open" /\ state' # "Open") =>
              (op' = "close" /\ state' = "Closed" /\ ~connection'.open)
        /\ (state = "Closed" /\ op' # "__init__") =>
              (state' = "Closed" /\ ~connection'.open /\ file' = file) ]_vars

\* C13 witness: close() has been called a second time on a closed instance.
C13_Witness ==
    /\ state = "Closed"
    /\ op = "close"
    /\ closes = 2
    /\ ~connection.open

\* ---------------------------------------------------------------------- C14
RolledBack == Made(calls, "rollback") \/ Made(calls, "rollback!")
Before(cs, a, b) == \E i, j \in 1..Len(cs) : i < j /\ cs[i] \in a /\ cs[j] \in b

C15_ExactlyOneCursor ==
    /\ connection.cursors = 0
    /\ (state = "Open" /\ op \in DataOps) =>
          /\ Count(calls, "cursor") = 1
          /\ Count(calls, "cursor.close") = 1
          /\ Count(calls, "cursor!") = 0
          /\ calls[1] = "cursor"
          /\ Before(calls, {"cursor"}, {"cursor.close"})
    /\ (state = "Closed" /\ op \in DataOps) =>
          /\ calls[1] = "cursor!"
          /\ Count(calls, "cursor") = 0
          /\ Count(calls, "cursor.close") = 0

\* C15 witness: an update_column that changed a row made one cursor, used it,
\* closed it and committed.
C15_Witness ==
    /\ state = "Open"
    /\ op = "update_column"
    /\ calls = <<"cursor", "execute", "cursor.close", "commit">>
    /\ staged_before = {}
    /\ \E r \in file.rows : r.name = args.values[1] /\ args.columns[1] = "name"

\* ---------------------------------------------------------------------- C16
\* C16: a fetchall or fetchone that succeeds calls neither commit nor
\* rollback, leaves the file, what the connection sees (the staged rows) and
\* whether a transaction is pending as they were, and closes its cursor last.
C16_FetchReadOnly ==
    [][ (op' \in {"fetchall", "fetchone"} /\ err' = NoError) =>
            /\ ~Made(calls', "commit") /\ ~Made(calls', "rollback")
            /\ file' = file
            /\ connection'.view = connection.view
            /\ connection'.in_transaction = connection.in_transaction
            /\ connection'.view.rows \ file'.rows = connection.view.rows \ file.rows
            /\ calls'[Len(calls')] = "cursor.close"
            /\ connection'.cursors = 0 ]_vars

\* C16 witness: a fetchall returned rows while an insert was staged, and the
\* insert is still staged.
C16_Witness ==
    /\ state = "Open"
    /\ op = "fetchall"
    /\ err = NoError
    /\ result.rows # <<>>
    /\ connection.in_transaction
    /\ staged_before # {}
    /\ connection.view.rows \ file.rows = staged_before

\* ---------------------------------------------------------------------- C17
\* C17: a construction that finds no file and returns has connected, read the
\* script, passed it whole to one executescript call on the new connection
\* and committed, in this order and with nothing after the commit; the file
\* then holds what the script made, the connection sees the same, and no
\* transaction is pending.
C17_FirstRunCommitted ==
    [][ (op' = "__init__" /\ state' = "Open" /\ ~file.exists) =>
            /\ calls' = <<"connect", "open", "cursor", "executescript",
                          "cursor.close", "commit">>
            /\ opened' = 1
            /\ file'.exists
            /\ \E template \in Templates :
                  /\ template.readable
                  /\ RunScript(EmptyFile, template.script) =
                        [content |-> file', err |-> NoError]
            /\ connection'.view = file'
            /\ ~connection'.in_transaction ]_vars

\* C17 witness: the first construction has returned an open instance over a
\* file with the table of the script.
C17_Witness ==
    /\ state = "Open"
    /\ op = "__init__"
    /\ Made(calls, "executescript")
    /\ Made(calls, "commit")
    /\ file.tables = {"t"}
    /\ connection.view = file

\* ---------------------------------------------------------------------- C18
\* C18: when a mutating operation fails with a database error and rolls back
\* while rows inserted with auto_commit=False are uncommitted, none of those
\* rows is in the file or seen by the connection afterwards.
C18_RollbackDiscardsStaged ==
    (state = "Open" /\ op \in MutatingOps /\ IsDatabaseError(err)
        /\ Made(calls, "rollback")) =>
            /\ staged_before \cap file.rows = {}
            /\ staged_before \cap connection.view.rows = {}

\* ---------------------------------------------------------------------- C19
\* C19: a committing operation that succeeds (create_table, delete_one,
\* update_column, execute_script, insert_one with auto_commit=True) commits
\* the whole pending transaction, the rows staged before it included; and a
\* transaction becomes pending between operations only by an
\* insert_one(auto_commit=False) that succeeded.
C19_CommitPersistsStaged ==
    [][ /\ (state = "Open" /\ op' \in MutatingOps /\ err' = NoError
              /\ (op' = "insert_one" => args'.auto_commit)) =>
                 /\ file' = connection'.view
                 /\ ~connection'.in_transaction
                 /\ (op' \in {"create_table", "execute_script", "insert_one"}) =>
                       (connection.view.rows \ file.rows) \subseteq file'.rows
        /\ (~connection.in_transaction /\ connection'.in_transaction) =>
              (op' = "insert_one" /\ err' = NoError /\ ~args'.auto_commit) ]_vars

\* ---------------------------------------------------------------------- C20
\* C20: close() calls connection.close() and nothing else: no commit. The
\* file is after close() what it was before it, that is as of the last
\* commit; the rows staged and not committed are not in it, and the closed
\* connection holds nothing that a later call could still persist.
C20_CloseCommitsNothing ==
    [][ /\ (op' = "close") =>
              /\ calls' = <<"close">>
              /\ file' = file
              /\ (connection.view.rows \ file.rows) \cap file'.rows = {}
        /\ (state' = "Closed") =>
              /\ ~connection'.open
              /\ ~connection'.in_transaction
              /\ connection'.view = file'
              /\ file' = file ]_vars

\* C20 witness: close() was called with a staged row uncommitted; the row is
\* not in the file.
C20_Witness ==
    /\ state = "Closed"
    /\ op = "close"
    /\ staged_before # {}
    /\ staged_before \cap file.rows = {}
    /\ closes = 1

====
